---- MODULE Spec2Model ----
(***************************************************************************)
(* A model of the geotiff reader: the header gate (byte order, magic, IFD  *)
(* offset), the directory decoder (read_IFD / read_tag), the tagged value  *)
(* decoder, the raster reconstruction from strips or tiles, and the GeoKey *)
(* directory decoder.                                                      *)
(*                                                                         *)
(* Five specifications share the variables:                                *)
(*   SpecDecode  TIFFReader::read up to the end of read_IFD                *)
(*   SpecTag     one call of read_tag, on any record                       *)
(*   SpecLayout  read_image_data: the choice of the layout                 *)
(*   SpecRaster  read_image_data (read_strip_image / read_tiled_image)     *)
(*   SpecGeoKeys IFD::get_geo_keys                                         *)
(***************************************************************************)
EXTENDS Integers, Sequences, FiniteSets, TLC

VARIABLES
    pc,            \* position of the decode pass
    result,        \* what the running call returned: "none", an Err or a panic
    header,        \* the first bytes of the file (at most 8)
    pos,           \* the cursor of the seekable reader
    order,         \* the byte order strategy chosen by read_byte_order
    ifd_offset,    \* the value returned by read_ifd_offset
    ifd,           \* the IFD under construction: [count, entries]
    entry_number,  \* loop variable of read_IFD
    disk_tags,     \* the tag ids of the on-disk entries read so far
    diag,          \* the entry indices reported by println! in read_IFD
    reads,         \* per decoded entry: where its record and its value were read
    ras,           \* the inputs of read_image_data
    img,           \* the output Vec<Vec<Vec<usize>>> under construction
    cur,           \* curr_x, curr_y, curr_z and the loop counters
    consumed,      \* the samples read so far, in order, with their fate
    lookup,        \* the last call of get_value_at and what it gave
    gk,            \* the value of the GeoKeyDirectoryTag entry
    gk_i,          \* the next GeoKey record to map
    geo_keys       \* the GeoKeys collected so far

vars == <<pc, result, header, pos, order, ifd_offset, ifd, entry_number,
          disk_tags, diag, reads, ras, img, cur, consumed, lookup, gk, gk_i,
          geo_keys>>

decodeVars == <<header, pos, order, ifd_offset, ifd, entry_number, disk_tags,
                diag, reads>>
rasterVars == <<ras, img, cur, consumed, lookup>>
geoVars == <<gk, gk_i, geo_keys>>

----------------------------------------------------------------------------
(* Bounds of the model. *)

MaxEntries == 2      \* on-disk entries per directory
MaxCount == 5        \* small entry counts are 0..MaxCount
BlobLen == 8         \* bytes of the file that follow the directory

----------------------------------------------------------------------------
(* Byte-order generic reads (byteorder crate). *)

Pow2(n) == 2 ^ n

U16(Endian, b) ==
    IF Endian = "LittleEndian" THEN b[1] + 256 * b[2] ELSE 256 * b[1] + b[2]

U32(Endian, b) ==
    IF Endian = "LittleEndian"
    THEN b[1] + 256 * b[2] + 65536 * b[3] + 16777216 * b[4]
    ELSE 16777216 * b[1] + 65536 * b[2] + 256 * b[3] + b[4]

(* A 64-bit value is kept as its two 32-bit halves <<high, low>>. *)
U64(Endian, b) ==
    IF Endian = "LittleEndian"
    THEN <<U32(Endian, SubSeq(b, 5, 8)), U32(Endian, SubSeq(b, 1, 4))>>
    ELSE <<U32(Endian, SubSeq(b, 1, 4)), U32(Endian, SubSeq(b, 5, 8))>>

I8(b) == IF b >= 128 THEN b - 256 ELSE b
I16(Endian, b) ==
    LET u == U16(Endian, b) IN IF u >= 32768 THEN u - 65536 ELSE u
I32(Endian, b) ==
    LET msb == IF Endian = "LittleEndian" THEN b[4] ELSE b[1]
        top == IF msb >= 128 THEN msb - 256 ELSE msb
    IN IF Endian = "LittleEndian"
       THEN b[1] + 256 * b[2] + 65536 * b[3] + 16777216 * top
       ELSE 16777216 * top + 65536 * b[2] + 256 * b[3] + b[4]

(* The bytes a writer of the given order stores for a 16/32-bit field. *)
U16Bytes(Endian, v) ==
    IF Endian = "LittleEndian" THEN <<v % 256, v \div 256>>
    ELSE <<v \div 256, v % 256>>

U32Bytes(Endian, v) ==
    LET b0 == v % 256
        b1 == (v \div 256) % 256
        b2 == (v \div 65536) % 256
        b3 == (v \div 16777216) % 256
    IN IF Endian = "LittleEndian" THEN <<b0, b1, b2, b3>> ELSE <<b3, b2, b1, b0>>

----------------------------------------------------------------------------
(* Primitive type registry (lowlevel.rs). *)

(* Mutant: the two markers exchanged. *)
TIFFByteOrder_from_u16_swapped(v) ==
    CASE v = 18761 -> "BigEndian"
      [] v = 19789 -> "LittleEndian"
      [] OTHER -> "None"

TIFFByteOrder_from_u16(v) ==
    CASE v = 18761 -> "LittleEndian"     \* 0x4949
      [] v = 19789 -> "BigEndian"        \* 0x4d4d
      [] OTHER -> "None"

RecognizedTags ==
    {254, 255, 256, 257, 258, 259, 262, 263, 264, 265, 266, 270, 271, 272, 273,
     274, 277, 278, 279, 280, 281, 282, 283, 284, 288, 289, 290, 291, 296, 301,
     305, 306, 315, 316, 317, 318, 319, 320, 330, 338, 339, 342, 347, 529, 530,
     531, 532, 700, 33421, 33423, 33432, 33550, 33723, 33922, 34264, 34377,
     34665, 34675, 34735, 34736, 34737, 34857, 34858, 34859, 37389, 37393,
     37394, 37395, 37398, 42112, 42113}

(* Mutant: every id is taken for a tag of the registry. *)
decode_tag_any(value) == <<value>>

(* Option<TIFFTag>: <<tag>> is Some(tag), <<>> is None. *)
decode_tag(value) == IF value \in RecognizedTags THEN <<value>> ELSE <<>>

decode_tag_type(tpe) ==
    CASE tpe = 1 -> "Byte"
      [] tpe = 2 -> "ASCII"
      [] tpe = 3 -> "Short"
      [] tpe = 4 -> "Long"
      [] tpe = 5 -> "Rational"
      [] tpe = 6 -> "SignedByte"
      [] tpe = 7 -> "Undefined"
      [] tpe = 8 -> "SignedShort"
      [] tpe = 9 -> "SignedLong"
      [] tpe = 10 -> "SignedRational"
      [] tpe = 11 -> "Float"
      [] tpe = 12 -> "Double"
      [] OTHER -> "None"

tag_size(t) ==
    CASE t = "Byte" -> 1
      [] t = "ASCII" -> 1
      [] t = "Short" -> 2
      [] t = "Long" -> 4
      [] t = "Rational" -> 8
      [] t = "SignedByte" -> 1
      [] t = "Undefined" -> 1
      [] t = "SignedShort" -> 2
      [] t = "SignedLong" -> 2
      [] t = "SignedRational" -> 8
      [] t = "Float" -> 4
      [] t = "Double" -> 8

----------------------------------------------------------------------------
(* Tagged value decoder (reader.rs, bytes_to_tag_value). *)

(* slice::chunks_exact(k): the whole chunks, the remainder dropped. *)
chunks_exact(vec, k) ==
    [j \in 1..(Len(vec) \div k) |-> SubSeq(vec, (j - 1) * k + 1, j * k)]

(* Iterator::array_chunks::<2>(): the whole pairs, the remainder dropped. *)
array_chunks2(s) ==
    [j \in 1..(Len(s) \div 2) |-> <<s[2 * j - 1], s[2 * j]>>]

(* String::from_utf8_lossy on single bytes: a byte that is not ASCII becomes *)
(* U+FFFD.                                                                   *)
from_utf8_lossy(vec) ==
    [j \in 1..Len(vec) |-> IF vec[j] < 128 THEN vec[j] ELSE 65533]

bytes_to_tag_value(Endian, vec, tpe) ==
    CASE tpe = "Byte" -> [kind |-> "Byte", elems |-> vec]
      [] tpe = "ASCII" -> [kind |-> "Ascii", elems |-> from_utf8_lossy(vec)]
      [] tpe = "Short" ->
           [kind |-> "Short",
            elems |-> [j \in 1..(Len(vec) \div 2) |-> U16(Endian, chunks_exact(vec, 2)[j])]]
      [] tpe = "Long" ->
           [kind |-> "Long",
            elems |-> [j \in 1..(Len(vec) \div 4) |-> U32(Endian, chunks_exact(vec, 4)[j])]]
      [] tpe = "Rational" ->
           [kind |-> "Rational",
            elems |-> [j \in 1..((Len(vec) \div 4) \div 2) |->
                         <<U32(Endian, array_chunks2(chunks_exact(vec, 4))[j][1]),
                           U32(Endian, array_chunks2(chunks_exact(vec, 4))[j][2])>>]]
      [] tpe = "SignedByte" ->
           [kind |-> "SignedByte", elems |-> [j \in 1..Len(vec) |-> I8(vec[j])]]
      [] tpe = "SignedShort" ->
           [kind |-> "SignedShort",
            elems |-> [j \in 1..(Len(vec) \div 2) |-> I16(Endian, chunks_exact(vec, 2)[j])]]
      [] tpe = "SignedLong" ->
           [kind |-> "SignedLong",
            elems |-> [j \in 1..(Len(vec) \div 4) |-> I32(Endian, chunks_exact(vec, 4)[j])]]
      [] tpe = "SignedRational" ->
           [kind |-> "SignedRational",
            elems |-> [j \in 1..((Len(vec) \div 4) \div 2) |->
                         <<I32(Endian, array_chunks2(chunks_exact(vec, 4))[j][1]),
                           I32(Endian, array_chunks2(chunks_exact(vec, 4))[j][2])>>]]
      [] tpe = "Float" ->
           \* the IEEE bit pattern stands for the f32
           [kind |-> "Float",
            elems |-> [j \in 1..(Len(vec) \div 4) |-> U32(Endian, chunks_exact(vec, 4)[j])]]
      [] tpe = "Double" ->
           [kind |-> "Double",
            elems |-> [j \in 1..(Len(vec) \div 8) |-> U64(Endian, chunks_exact(vec, 8)[j])]]
      [] tpe = "Undefined" -> [kind |-> "Byte", elems |-> <<>>]

----------------------------------------------------------------------------
(* The file read by SpecDecode: an 8-byte header, the directory at DirStart *)
(* (entry count, then 12-byte records), then BlobLen bytes of value data.   *)

Orders == {"LittleEndian", "BigEndian"}

DirStart == 8

HeaderByteChoices == {73, 77, 0, 42}     \* 'I', 'M', 0, 42

OffsetFields == {U32Bytes(o, DirStart) : o \in Orders}

FullHeaders ==
    {m \o f : m \in [1..4 -> HeaderByteChoices], f \in OffsetFields}

(* Every header, and every file that ends inside its header. *)
HeaderFiles == {SubSeq(h, 1, n) : h \in FullHeaders, n \in 0..8}

BlobStart == DirStart + 2 + 12 * MaxEntries

FileLen == BlobStart + BlobLen

(* A file with a whole header continues to FileLen. *)
file_len == IF Len(header) < 8 THEN Len(header) ELSE FileLen

(* The bytes after the directory: distinct at neighbouring offsets, and     *)
(* below 128 so that every unsigned 32-bit value read from them is below   *)
(* 2^31.                                                                   *)
BlobByte(o) == (o * 37 + 11) % 128

(* On-disk entries: the i-th record holds the i-th tag of DiskTags (TIFF    *)
(* directories are sorted by tag) or an id outside the registry.            *)
DiskTags == <<256, 257, 258, 259, 262>>
UnknownTagId == 65000
TypeChoices == 0..13
LargeCounts == {Pow2(30)}
CountChoices == (0..MaxCount) \cup LargeCounts
FieldChoices == {BlobStart, BlobStart + 3}

EntryBytes(Endian, tag_value, tpe_value, count_value, field) ==
    U16Bytes(Endian, tag_value) \o U16Bytes(Endian, tpe_value)
      \o U32Bytes(Endian, count_value) \o U32Bytes(Endian, field)

----------------------------------------------------------------------------
(* Header gate (reader.rs: read, read_byte_order, read_tiff, read_magic,    *)
(* read_ifd_offset).  A read past the end of the file is Err(UnexpectedEof) *)
(* and `?` returns it.                                                      *)

EofErr == "Err: failed to fill whole buffer"

read_byte_order(bytes) ==
    LET o == TIFFByteOrder_from_u16(U16("LittleEndian", bytes))
    IN IF o = "None" THEN "Err: Invalid byte order in header." ELSE o

(* Mutant: the magic number is always read as little-endian. *)
read_magic_little_endian(Endian, bytes) ==
    IF U16("LittleEndian", bytes) = 42 THEN "Ok"
    ELSE "Err: Invalid magic number in header"

read_magic(Endian, bytes) ==
    IF U16(Endian, bytes) = 42 THEN "Ok" ELSE "Err: Invalid magic number in header"

ReadByteOrder ==
    /\ pc = "read_byte_order"
    /\ IF pos + 2 > file_len
       THEN /\ pc' = "returned"
            /\ result' = EofErr
            /\ UNCHANGED <<pos, order>>
       ELSE LET r == read_byte_order(SubSeq(header, pos + 1, pos + 2))
            IN /\ pos' = pos + 2
               /\ IF r \in Orders
                  THEN /\ order' = r
                       /\ pc' = "read_magic"
                       /\ UNCHANGED result
                  ELSE /\ pc' = "returned"
                       /\ result' = r
                       /\ UNCHANGED order
    /\ UNCHANGED <<header, ifd_offset, ifd, entry_number, disk_tags, diag, reads>>
    /\ UNCHANGED <<rasterVars, geoVars>>

ReadMagic ==
    /\ pc = "read_magic"
    /\ IF pos + 2 > file_len
       THEN /\ pc' = "returned"
            /\ result' = EofErr
            /\ UNCHANGED pos
       ELSE LET r == read_magic(order, SubSeq(header, pos + 1, pos + 2))
            IN /\ pos' = pos + 2
               /\ IF r = "Ok"
                  THEN pc' = "read_ifd_offset" /\ UNCHANGED result
                  ELSE pc' = "returned" /\ result' = r
    /\ UNCHANGED <<header, order, ifd_offset, ifd, entry_number, disk_tags, diag, reads>>
    /\ UNCHANGED <<rasterVars, geoVars>>

ReadIfdOffset ==
    /\ pc = "read_ifd_offset"
    /\ IF pos + 4 > file_len
       THEN /\ pc' = "returned"
            /\ result' = EofErr
            /\ UNCHANGED <<pos, ifd_offset>>
       ELSE /\ ifd_offset' = U32(order, SubSeq(header, pos + 1, pos + 4))
            /\ pos' = pos + 4
            /\ pc' = "read_IFD"
            /\ UNCHANGED result
    /\ UNCHANGED <<header, order, ifd, entry_number, disk_tags, diag, reads>>
    /\ UNCHANGED <<rasterVars, geoVars>>

----------------------------------------------------------------------------
(* Directory decoder (reader.rs: read_IFD, read_tag, read_n). *)

(* u32 multiplication count_value * value_size.  It overflows when the      *)
(* product reaches 2^32: a build with overflow checks panics, a build       *)
(* without them wraps.  Products above Huge are represented by Huge: a span *)
(* that long always runs past the end of the file.                          *)
Huge == Pow2(30)

mul_overflows_u32(count_value, value_size) ==
    count_value \div (Pow2(30) \div value_size) >= 4

wrapping_mul_u32(count_value, value_size) ==
    LET c == IF mul_overflows_u32(count_value, value_size)
             THEN count_value % (Pow2(30) \div (value_size \div 4))
             ELSE count_value
    IN IF c > Huge \div value_size THEN Huge ELSE c * value_size

OverflowOutcomes == {"wrap", "panic"}

(* The byte at offset o of a file whose record at rec_at holds rec. *)
FileByteAt(rec_at, rec, o) ==
    IF o >= rec_at /\ o < rec_at + 12 THEN rec[o - rec_at + 1] ELSE BlobByte(o)

(* Mutant: the seek is left out, the read continues at the cursor. *)
seek_continue(cursor, target) == cursor

(* reader.seek(SeekFrom::Start(target)): the new cursor. *)
seek_start(cursor, target) == target

(* read_tag on a file that holds the 12 bytes rec at                         *)
(* ifd_offset + 12 * entry_number, with the reader at cursor.  ifd_offset    *)
(* is the parameter of read_tag (the directory offset + 2).                  *)
read_tag(Endian, ifd_offset_2, entry_no, rec, ov, cursor) ==
    LET disk_at == ifd_offset_2 + 12 * entry_no
        rec_at == seek_start(cursor, disk_at)
        bytes == [k \in 1..12 |-> FileByteAt(disk_at, rec, rec_at + k - 1)]
        tag_value == U16(Endian, SubSeq(bytes, 1, 2))
        tpe_value == U16(Endian, SubSeq(bytes, 3, 4))
        count_value == U32(Endian, SubSeq(bytes, 5, 8))
        value_offset_value == U32(Endian, SubSeq(bytes, 9, 12))
        tag == decode_tag(tag_value)
        tpe == decode_tag_type(tpe_value)
    IN IF rec_at + 12 > FileLen
       THEN [kind |-> "Err", msg |-> EofErr]
       ELSE IF tag = <<>>
       THEN [kind |-> "Err", msg |-> "Invalid tag", pos |-> rec_at + 12]
       ELSE IF tpe = "None"
       THEN [kind |-> "panic", msg |-> "Invalid tag type"]
       ELSE IF mul_overflows_u32(count_value, tag_size(tpe)) /\ ov = "panic"
       THEN [kind |-> "panic", msg |-> "attempt to multiply with overflow"]
       ELSE
         LET value_size == tag_size(tpe)
             total_size == wrapping_mul_u32(count_value, value_size)
             number_of_bytes_to_read == total_size
             val_at == IF total_size <= 4
                       THEN seek_start(rec_at + 12, disk_at + 8)
                       ELSE seek_start(rec_at + 12, value_offset_value)
         IN IF val_at + number_of_bytes_to_read > FileLen
            THEN \* read_n: assert_eq!(bytes_to_read, n) fails on a short read
                 [kind |-> "panic", msg |-> "assertion failed in read_n"]
            ELSE
              LET values == [k \in 1..number_of_bytes_to_read |->
                               FileByteAt(disk_at, rec, val_at + k - 1)]
              IN [kind |-> "Ok",
                  entry |-> [tag |-> tag[1],
                             count |-> count_value,
                             value_offset |-> value_offset_value,
                             value |-> bytes_to_tag_value(Endian, values, tpe),
                             tpe |-> tpe],
                  read |-> [entry_number |-> entry_no,
                            rec_at |-> rec_at,
                            val_at |-> val_at,
                            n |-> number_of_bytes_to_read],
                  pos |-> val_at + number_of_bytes_to_read]

(* ifd.entries.push(e) *)
entries_push(entries, e) == Append(entries, e)

ReadIFDBegin ==
    /\ pc = "read_IFD"
    /\ IF seek_start(pos, ifd_offset) + 2 > file_len
       THEN /\ pc' = "returned"
            /\ result' = EofErr
            /\ pos' = seek_start(pos, ifd_offset)
            /\ UNCHANGED <<ifd, entry_number>>
       ELSE \E n \in 0..MaxEntries :
              /\ ifd' = [count |-> U16(order, U16Bytes(order, n)), entries |-> <<>>]
              /\ entry_number' = 0
              /\ pos' = seek_start(pos, ifd_offset) + 2
              /\ pc' = "read_tag"
              /\ UNCHANGED result
    /\ UNCHANGED <<header, order, ifd_offset, disk_tags, diag, reads>>
    /\ UNCHANGED <<rasterVars, geoVars>>

(* One iteration of the loop of read_IFD: read_tag on the next record, then *)
(* the match on its result.  The record is drawn from the given choices.    *)
ReadTagStep(tag_values, tpe_values, count_values, fields) ==
    /\ pc = "read_tag"
    /\ entry_number < ifd.count
    /\ \E tag_value \in tag_values,
          tpe_value \in tpe_values,
          count_value \in count_values,
          field \in fields,
          ov \in OverflowOutcomes :
         LET rec == EntryBytes(order, tag_value, tpe_value, count_value, field)
             entry == read_tag(order, ifd_offset + 2, entry_number, rec, ov, pos)
         IN /\ disk_tags' = Append(disk_tags, tag_value)
            /\ CASE entry.kind = "Ok" ->
                      /\ ifd' = [ifd EXCEPT !.entries = entries_push(@, entry.entry)]
                      /\ reads' = Append(reads, entry.read)
                      /\ pos' = entry.pos
                      /\ entry_number' = entry_number + 1
                      /\ UNCHANGED <<pc, result, diag>>
                 [] entry.kind = "Err" ->
                      \* println!("Invalid tag at index {}: {}", ...)
                      /\ diag' = Append(diag, entry_number)
                      /\ pos' = entry.pos
                      /\ entry_number' = entry_number + 1
                      /\ UNCHANGED <<pc, result, ifd, reads>>
                 [] entry.kind = "panic" ->
                      /\ pc' = "panicked"
                      /\ result' = entry.msg
                      /\ UNCHANGED <<pos, entry_number, ifd, reads, diag>>
    /\ UNCHANGED <<header, order, ifd_offset>>
    /\ UNCHANGED <<rasterVars, geoVars>>

(* In a whole decode pass the records are plain: a byte, short or long      *)
(* value, inline or out of line, or an id outside the registries.           *)
DirTypeChoices == {0, 1, 3, 4}
DirCountChoices == {1, 5}

ReadIFDEntry ==
    ReadTagStep({DiskTags[entry_number + 1], UnknownTagId},
                DirTypeChoices, DirCountChoices, {BlobStart})

(* A single read_tag call on any record. *)
ReadTagCall ==
    ReadTagStep({DiskTags[entry_number + 1], UnknownTagId},
                TypeChoices, CountChoices, FieldChoices)

(* The loop is over: Ok(ifd), and read_tiff goes on to read_image_data. *)
ReadIFDEnd ==
    /\ pc = "read_tag"
    /\ entry_number = ifd.count
    /\ pc' = "read_image_data"
    /\ result' = "Ok(ifd)"
    /\ UNCHANGED decodeVars
    /\ UNCHANGED <<rasterVars, geoVars>>

NoRaster == [kind |-> "none"]
NoGeo == [kind |-> "none", elems |-> <<>>]
NoLookup == [lon |-> 0, lat |-> 0, value |-> <<>>]

InitDecode ==
    /\ pc = "read_byte_order"
    /\ result = "none"
    /\ header \in HeaderFiles
    /\ pos = 0
    /\ order = "none"
    /\ ifd_offset = 0
    /\ ifd = [count |-> 0, entries |-> <<>>]
    /\ entry_number = 0
    /\ disk_tags = <<>>
    /\ diag = <<>>
    /\ reads = <<>>
    /\ ras = NoRaster
    /\ img = <<>>
    /\ cur = [x |-> 0, y |-> 0, z |-> 0]
    /\ consumed = <<>>
    /\ lookup = NoLookup
    /\ gk = NoGeo
    /\ gk_i = 0
    /\ geo_keys = <<>>

NextDecode ==
    \/ ReadByteOrder
    \/ ReadMagic
    \/ ReadIfdOffset
    \/ ReadIFDBegin
    \/ ReadIFDEntry
    \/ ReadIFDEnd

SpecDecode == InitDecode /\ [][NextDecode]_vars

(* read_tag alone: one call, on any record, at any index of the directory. *)
InitTag ==
    /\ pc = "read_tag"
    /\ result = "none"
    /\ order \in Orders
    /\ header = U16Bytes(order, IF order = "LittleEndian" THEN 18761 ELSE 19789)
                  \o U16Bytes(order, 42) \o U32Bytes(order, DirStart)
    /\ ifd_offset = DirStart
    /\ entry_number \in 0..(MaxEntries - 1)
    /\ ifd = [count |-> entry_number + 1, entries |-> <<>>]
    /\ pos = ifd_offset + 2
    /\ disk_tags = <<>>
    /\ diag = <<>>
    /\ reads = <<>>
    /\ ras = NoRaster
    /\ img = <<>>
    /\ cur = [x |-> 0, y |-> 0, z |-> 0]
    /\ consumed = <<>>
    /\ lookup = NoLookup
    /\ gk = NoGeo
    /\ gk_i = 0
    /\ geo_keys = <<>>

NextTag ==
    \/ ReadTagCall
    \/ ReadIFDEnd

SpecTag == InitTag /\ [][NextTag]_vars

----------------------------------------------------------------------------
(* Raster reconstruction (reader.rs: read_image_data, read_strip_image,     *)
(* read_tiled_image, vec_to_value).                                         *)

MaxDim == 3          \* image_width and image_length are 1..MaxDim
MaxTile == 2         \* tile_width and tile_length are 1..MaxTile
MaxSamples == 2      \* declared samples per pixel are 1..MaxSamples

BitsChoices == {8, 16}
Deltas == {0 - 1, 0, 1}   \* samples missing from, or added to, the last span

DataStart == DirStart

(* The bytes of the pixel data: distinct at neighbouring offsets. *)
DataByte(o) == (o * 5 + 3) % 128

CeilDiv(a, b) == (a + b - 1) \div b
Min(a, b) == IF a < b THEN a ELSE b
Max(a, b) == IF a > b THEN a ELSE b

(* tiff.rs: get_bytes_per_sample is BitsPerSample / 8. *)
get_bytes_per_sample(bits) == bits \div 8

(* The spans a writer stores: n spans of `full` samples each, the last one  *)
(* holding `last + delta` samples, laid out one after the other.            *)
SpanOffsets(n, full, depth) ==
    [k \in 1..n |-> DataStart + (k - 1) * full * depth]
SpanByteCounts(n, full, last, delta, depth) ==
    [k \in 1..n |-> IF k < n THEN full * depth ELSE Max(0, last + delta) * depth]

StripInputs ==
    {[layout |-> "strip", Endian |-> e, image_width |-> w, image_length |-> h,
      bits_per_sample |-> b, samples_per_pixel |-> sp,
      tile_width |-> 0, tile_length |-> 0,
      offsets |-> SpanOffsets(CeilDiv(h, rps), rps * w * sp, b \div 8),
      byte_counts |-> SpanByteCounts(CeilDiv(h, rps), rps * w * sp,
                                     (h - (CeilDiv(h, rps) - 1) * rps) * w * sp,
                                     d, b \div 8)] :
        e \in Orders, w \in 1..MaxDim, h \in 1..MaxDim, b \in BitsChoices,
        sp \in 1..MaxSamples, rps \in 1..MaxDim, d \in Deltas}

TileInputs ==
    {[layout |-> "tile", Endian |-> e, image_width |-> w, image_length |-> h,
      bits_per_sample |-> b, samples_per_pixel |-> sp,
      tile_width |-> tw, tile_length |-> tl,
      offsets |-> SpanOffsets(CeilDiv(w, tw) * CeilDiv(h, tl), tw * tl * sp, b \div 8),
      byte_counts |-> SpanByteCounts(CeilDiv(w, tw) * CeilDiv(h, tl), tw * tl * sp,
                                     tw * tl * sp, d, b \div 8)] :
        e \in Orders, w \in 1..MaxDim, h \in 1..MaxDim, b \in BitsChoices,
        sp \in 1..MaxSamples, tw \in 1..MaxTile, tl \in 1..MaxTile, d \in Deltas}

RasterInputs == StripInputs \cup TileInputs

(* read_n(reader, image_depth) at offset `at`. *)
SampleBytes(at, image_depth) == [k \in 1..image_depth |-> DataByte(at + k - 1)]

VecLens == {0, 1, 2, 4, 8}

vec_to_value(Endian, vec) ==
    CASE Len(vec) = 0 -> 0
      [] Len(vec) = 1 -> vec[1]
      [] Len(vec) = 2 -> U16(Endian, vec)
      [] Len(vec) = 4 -> U32(Endian, vec)
      [] Len(vec) = 8 -> U64(Endian, vec)

(* The output Vec: image_length rows of image_width empty pixels. *)
NewImg(image_length, image_width) ==
    [r \in 1..image_length |-> [c \in 1..image_width |-> <<>>]]

(* Mutant: the column wraps at the number of rows. *)
strip_sample_wrap_at_rows(im, c, v) ==
    IF c.x >= Len(im) \/ c.y >= Len(im[c.x + 1])
    THEN [panic |-> TRUE, img |-> im, x |-> c.x, y |-> c.y, z |-> c.z]
    ELSE LET im1 == [im EXCEPT ![c.x + 1][c.y + 1] = Append(@, v)]
             z1 == c.z + 1
             wrapz == z1 >= Len(im1[c.x + 1][c.y + 1])
             y2 == IF wrapz THEN c.y + 1 ELSE c.y
             wrapy == y2 >= Len(im1)
         IN [panic |-> FALSE, img |-> im1,
             x |-> IF wrapy THEN c.x + 1 ELSE c.x,
             y |-> IF wrapy THEN 0 ELSE y2,
             z |-> IF wrapz THEN 0 ELSE z1]

(* One iteration of the inner loop of read_strip_image on sample v.  In     *)
(* this function curr_x is the row and curr_y the column.  An index past    *)
(* the end of a Vec panics.                                                 *)
strip_sample(im, c, v) ==
    IF c.x >= Len(im) \/ c.y >= Len(im[c.x + 1])
    THEN [panic |-> TRUE, img |-> im, x |-> c.x, y |-> c.y, z |-> c.z]
    ELSE LET im1 == [im EXCEPT ![c.x + 1][c.y + 1] = Append(@, v)]
             z1 == c.z + 1
             wrapz == z1 >= Len(im1[c.x + 1][c.y + 1])
             y2 == IF wrapz THEN c.y + 1 ELSE c.y
             wrapy == y2 >= Len(im1[c.x + 1])
         IN [panic |-> FALSE, img |-> im1,
             x |-> IF wrapy THEN c.x + 1 ELSE c.x,
             y |-> IF wrapy THEN 0 ELSE y2,
             z |-> IF wrapz THEN 0 ELSE z1]

(* The placement of the nth tile. *)
tiles_across(r) == (r.image_width + r.tile_width - 1) \div r.tile_width
tiles_down(r) == (r.image_length + r.tile_length - 1) \div r.tile_length
tile_col(r, nth_tile) == nth_tile % tiles_across(r)
tile_row(r, nth_tile) == nth_tile \div tiles_across(r)
start_x(r, nth_tile) == tile_col(r, nth_tile) * r.tile_width
(* Mutant: the tile is one column narrower. *)
end_x_one_short(r, nth_tile) == (tile_col(r, nth_tile) + 1) * r.tile_width - 1
end_x(r, nth_tile) == (tile_col(r, nth_tile) + 1) * r.tile_width
max_y(r) == tiles_down(r) * r.tile_length
(* Mutant: the tile rows are laid from the top. *)
start_y_from_top(r, nth_tile) == tile_row(r, nth_tile) * r.tile_length
start_y(r, nth_tile) == max_y(r) - (tile_row(r, nth_tile) + 1) * r.tile_length

(* Whether the sample at the cursor lies outside the image. *)
tile_outside(r, c) == c.x >= r.image_width \/ c.y >= r.image_length

(* One iteration of the inner loop of read_tiled_image on sample v.  Here   *)
(* curr_x is the column and curr_y the row.                                 *)
tile_sample(r, nth_tile, im, c, v) ==
    IF tile_outside(r, c)
    THEN LET z1 == c.z + 1
             wrapz == z1 >= Len(im[1][1])
             x2 == IF wrapz THEN c.x + 1 ELSE c.x
             wrapx == x2 >= end_x(r, nth_tile)
         IN [panic |-> FALSE, img |-> im,
             x |-> IF wrapx THEN start_x(r, nth_tile) ELSE x2,
             y |-> IF wrapx THEN c.y + 1 ELSE c.y,
             z |-> IF wrapz THEN 0 ELSE z1]
    ELSE LET im1 == [im EXCEPT ![c.y + 1][c.x + 1] = Append(@, v)]
             z1 == c.z + 1
             wrapz == z1 >= Len(im1[c.y + 1][c.x + 1])
             x2 == IF wrapz THEN c.x + 1 ELSE c.x
             wrapx == x2 >= end_x(r, nth_tile)
         IN [panic |-> FALSE, img |-> im1,
             x |-> IF wrapx THEN start_x(r, nth_tile) ELSE x2,
             y |-> IF wrapx THEN c.y + 1 ELSE c.y,
             z |-> IF wrapz THEN 0 ELSE z1]

image_depth(r) == get_bytes_per_sample(r.bits_per_sample)

(* offsets.iter().zip(byte_counts.iter()) *)
SpanCount(r) == Min(Len(r.offsets), Len(r.byte_counts))

(* The iterations of the inner loop on span k (1-based). *)
SpanSamples(r, k) == r.byte_counts[k] \div image_depth(r)

(* read_image_data up to the first span: the output Vec is allocated and   *)
(* the cursors are set.                                                     *)
ReadImageData ==
    /\ pc = "read_image_data"
    /\ img' = NewImg(ras.image_length, ras.image_width)
    /\ cur' = [x |-> 0, y |-> 0, z |-> 0, nth |-> 0, i |-> 0]
    /\ pc' = IF ras.layout = "strip" THEN "strip_seek" ELSE "tile_seek"
    /\ UNCHANGED <<result, ras, consumed, lookup>>
    /\ UNCHANGED <<decodeVars, geoVars>>

(* The head of the outer loop of read_strip_image: seek to the strip. *)
StripSeek ==
    /\ pc = "strip_seek"
    /\ cur.nth < SpanCount(ras)
    /\ pos' = seek_start(pos, ras.offsets[cur.nth + 1])
    /\ IF image_depth(ras) = 0
       THEN /\ pc' = "panicked"
            /\ result' = "attempt to divide by zero"
            /\ UNCHANGED cur
       ELSE /\ UNCHANGED result
            /\ IF SpanSamples(ras, cur.nth + 1) = 0
               THEN /\ cur' = [cur EXCEPT !.nth = @ + 1]
                    /\ UNCHANGED pc
               ELSE /\ cur' = [cur EXCEPT !.i = 0]
                    /\ pc' = "strip_sample"
    /\ UNCHANGED <<header, order, ifd_offset, ifd, entry_number, disk_tags, diag, reads>>
    /\ UNCHANGED <<ras, img, consumed, lookup, geoVars>>

(* One iteration of the inner loop of read_strip_image. *)
StripSample ==
    /\ pc = "strip_sample"
    /\ LET v == vec_to_value(ras.Endian, SampleBytes(pos, image_depth(ras)))
           st == strip_sample(img, cur, v)
           last == cur.i + 1 = SpanSamples(ras, cur.nth + 1)
       IN IF st.panic
          THEN /\ pc' = "panicked"
               /\ result' = "index out of bounds"
               /\ pos' = pos + image_depth(ras)
               /\ UNCHANGED <<img, cur, consumed>>
          ELSE /\ img' = st.img
               /\ pos' = pos + image_depth(ras)
               /\ consumed' = Append(consumed, [span |-> cur.nth, row |-> cur.x,
                                                col |-> cur.y, written |-> TRUE])
               /\ cur' = [x |-> st.x, y |-> st.y, z |-> st.z,
                          nth |-> IF last THEN cur.nth + 1 ELSE cur.nth,
                          i |-> IF last THEN 0 ELSE cur.i + 1]
               /\ pc' = IF last THEN "strip_seek" ELSE "strip_sample"
               /\ UNCHANGED result
    /\ UNCHANGED <<header, order, ifd_offset, ifd, entry_number, disk_tags, diag, reads>>
    /\ UNCHANGED <<ras, lookup, geoVars>>

(* Every strip is read: Ok(img). *)
StripDone ==
    /\ pc = "strip_seek"
    /\ cur.nth = SpanCount(ras)
    /\ pc' = "done"
    /\ result' = "Ok(img)"
    /\ UNCHANGED <<decodeVars, rasterVars, geoVars>>

(* The head of the outer loop of read_tiled_image: the placement of the     *)
(* tile, and the seek to it.                                                *)
TileSeek ==
    /\ pc = "tile_seek"
    /\ cur.nth < SpanCount(ras)
    /\ pos' = seek_start(pos, ras.offsets[cur.nth + 1])
    /\ IF image_depth(ras) = 0
       THEN /\ pc' = "panicked"
            /\ result' = "attempt to divide by zero"
            /\ UNCHANGED cur
       ELSE /\ UNCHANGED result
            /\ IF SpanSamples(ras, cur.nth + 1) = 0
               THEN /\ cur' = [cur EXCEPT !.nth = @ + 1,
                                          !.x = start_x(ras, cur.nth),
                                          !.y = start_y(ras, cur.nth)]
                    /\ UNCHANGED pc
               ELSE /\ cur' = [cur EXCEPT !.i = 0,
                                          !.x = start_x(ras, cur.nth),
                                          !.y = start_y(ras, cur.nth)]
                    /\ pc' = "tile_sample"
    /\ UNCHANGED <<header, order, ifd_offset, ifd, entry_number, disk_tags, diag, reads>>
    /\ UNCHANGED <<ras, img, consumed, lookup, geoVars>>

(* One iteration of the inner loop of read_tiled_image. *)
TileSample ==
    /\ pc = "tile_sample"
    /\ LET v == vec_to_value(ras.Endian, SampleBytes(pos, image_depth(ras)))
           st == tile_sample(ras, cur.nth, img, cur, v)
           last == cur.i + 1 = SpanSamples(ras, cur.nth + 1)
       IN /\ img' = st.img
          /\ pos' = pos + image_depth(ras)
          /\ consumed' = Append(consumed, [span |-> cur.nth, row |-> cur.y,
                                           col |-> cur.x, written |-> st.img # img])
          /\ cur' = [x |-> st.x, y |-> st.y, z |-> st.z,
                     nth |-> IF last THEN cur.nth + 1 ELSE cur.nth,
                     i |-> IF last THEN 0 ELSE cur.i + 1]
          /\ pc' = IF last THEN "tile_seek" ELSE "tile_sample"
    /\ UNCHANGED result
    /\ UNCHANGED <<header, order, ifd_offset, ifd, entry_number, disk_tags, diag, reads>>
    /\ UNCHANGED <<ras, lookup, geoVars>>

(* Every tile is read: Ok(img). *)
TileDone ==
    /\ pc = "tile_seek"
    /\ cur.nth = SpanCount(ras)
    /\ pc' = "done"
    /\ result' = "Ok(img)"
    /\ UNCHANGED <<decodeVars, rasterVars, geoVars>>

(* lib.rs: TIFF::get_value_at(lon, lat) on the TIFF a successful read      *)
(* returned.  An index past the end of a Vec panics.                        *)
get_value_at(image_data, lon, lat) ==
    IF lon >= Len(image_data) THEN <<>>
    ELSE IF lat >= Len(image_data[lon + 1]) THEN <<>>
    ELSE IF Len(image_data[lon + 1][lat + 1]) = 0 THEN <<>>
    ELSE <<image_data[lon + 1][lat + 1][1]>>

GetValueAt ==
    /\ pc = "done"
    /\ \E lon \in 0..(MaxDim - 1), lat \in 0..(MaxDim - 1) :
          LET v == get_value_at(img, lon, lat)
          IN /\ lookup' = [lon |-> lon, lat |-> lat, value |-> v]
             /\ IF v = <<>>
                THEN pc' = "lookup_panicked" /\ result' = "index out of bounds"
                ELSE pc' = "looked_up" /\ UNCHANGED result
    /\ UNCHANGED <<ras, img, cur, consumed>>
    /\ UNCHANGED <<decodeVars, geoVars>>

InitRaster ==
    /\ pc = "read_image_data"
    /\ result = "none"
    /\ ras \in RasterInputs
    /\ order = ras.Endian
    /\ header = <<>>
    /\ pos = 0
    /\ ifd_offset = 0
    /\ ifd = [count |-> 0, entries |-> <<>>]
    /\ entry_number = 0
    /\ disk_tags = <<>>
    /\ diag = <<>>
    /\ reads = <<>>
    /\ img = <<>>
    /\ cur = [x |-> 0, y |-> 0, z |-> 0, nth |-> 0, i |-> 0]
    /\ consumed = <<>>
    /\ lookup = NoLookup
    /\ gk = NoGeo
    /\ gk_i = 0
    /\ geo_keys = <<>>

NextRaster ==
    \/ ReadImageData
    \/ StripSeek
    \/ StripSample
    \/ StripDone
    \/ TileSeek
    \/ TileSample
    \/ TileDone
    \/ GetValueAt

SpecRaster == InitRaster /\ [][NextRaster]_vars

(* read_strip_image and read_tiled_image as functions of their inputs: the  *)
(* same iterations, run to the end.                                         *)
RECURSIVE strip_span(_, _, _, _)
strip_span(r, st, at, n) ==
    IF n = 0 \/ st.panic THEN st
    ELSE strip_span(r,
                    strip_sample(st.img, st,
                                 vec_to_value(r.Endian, SampleBytes(at, image_depth(r)))),
                    at + image_depth(r), n - 1)

RECURSIVE strip_spans(_, _, _)
strip_spans(r, st, k) ==
    IF k > SpanCount(r) \/ st.panic THEN st
    ELSE strip_spans(r, strip_span(r, st, r.offsets[k], SpanSamples(r, k)), k + 1)

read_strip_image(r) ==
    LET st == strip_spans(r, [panic |-> FALSE,
                              img |-> NewImg(r.image_length, r.image_width),
                              x |-> 0, y |-> 0, z |-> 0], 1)
    IN IF st.panic THEN [kind |-> "panic", img |-> <<>>]
       ELSE [kind |-> "Ok", img |-> st.img]

RECURSIVE tile_span(_, _, _, _, _)
tile_span(r, nth_tile, st, at, n) ==
    IF n = 0 THEN st
    ELSE tile_span(r, nth_tile,
                   tile_sample(r, nth_tile, st.img, st,
                               vec_to_value(r.Endian, SampleBytes(at, image_depth(r)))),
                   at + image_depth(r), n - 1)

RECURSIVE tile_spans(_, _, _)
tile_spans(r, st, k) ==
    IF k > SpanCount(r) THEN st
    ELSE tile_spans(r,
                    tile_span(r, k - 1,
                              [st EXCEPT !.x = start_x(r, k - 1), !.y = start_y(r, k - 1)],
                              r.offsets[k], SpanSamples(r, k)),
                    k + 1)

read_tiled_image(r) ==
    LET st == tile_spans(r, [panic |-> FALSE,
                             img |-> NewImg(r.image_length, r.image_width),
                             x |-> 0, y |-> 0, z |-> 0], 1)
    IN [kind |-> "Ok", img |-> st.img]

----------------------------------------------------------------------------
(* The GeoKey directory decoder (tiff.rs: IFD::get_geo_keys).               *)

MaxKeys == 2         \* records in the value, and the key counts 0..MaxKeys

(* The ids of the table of get_geo_keys, and one id that is not in it. *)
TableKeyIds == {1024, 1025, 2048, 2050, 2051, 2052, 2053, 2054}
OtherKeyIds == {3072}
GeoLocations == {0, 34736}
GeoCounts == {1, 3}

(* The 4th field a writer stores with each id. *)
GeoValue(id) ==
    CASE id = 1024 -> 2
      [] id = 2048 -> 4326
      [] OTHER -> (id % 100) + 1

GeoRecords ==
    {[id |-> i, location |-> l, count |-> c, value |-> GeoValue(i)] :
        i \in TableKeyIds \cup OtherKeyIds, l \in GeoLocations, c \in GeoCounts}

(* The entry found by get_geo_keys: absent, or an array of Long (which no   *)
(* writer produces), or an array of Short with a header and records.        *)
GeoInputs ==
    {[present |-> FALSE, kind |-> "Short", key_count |-> 0, records |-> <<>>]}
    \cup {[present |-> TRUE, kind |-> "Long", key_count |-> 1, records |-> <<r>>] :
            r \in {x \in GeoRecords : x.id = 1024}}
    \cup {[present |-> TRUE, kind |-> "Short", key_count |-> k, records |-> rs] :
            k \in 0..MaxKeys,
            rs \in UNION {[1..n -> GeoRecords] : n \in 0..MaxKeys}}

(* TagValue::as_short: Some for a Short only. *)
as_short(kind, v) == IF kind = "Short" THEN <<v>> ELSE <<>>

(* TagValue::as_unsigned_int: Some for the unsigned integer kinds. *)
as_unsigned_int(kind, v) == IF kind \in {"Short", "Long"} THEN <<v>> ELSE <<>>

(* Mutant: the geographic type and the datum change places. *)
geo_key_crossed(id, value) ==
    CASE id = 1024 -> [key |-> "GTModelTypeGeoKey", args |-> <<value>>]
      [] id = 1025 -> [key |-> "GTRasterTypeGeoKey", args |-> <<value>>]
      [] id = 2048 -> [key |-> "GeogGeodeticDatumGeoKey", args |-> <<value>>]
      [] id = 2050 -> [key |-> "GeographicTypeGeoKey", args |-> <<value>>]
      [] id = 2051 -> [key |-> "GeogPrimeMeridianGeoKey", args |-> <<value>>]
      [] id = 2052 -> [key |-> "GeogLinearUnitsGeoKey", args |-> <<value>>]
      [] id = 2053 -> [key |-> "GeogLinearUnitSizeGeoKey", args |-> <<value>>]
      [] id = 2054 -> [key |-> "GeogAngularUnitsGeoKey", args |-> <<value>>]
      [] OTHER -> [key |-> "Unknown", args |-> <<id, value>>]

(* The match of get_geo_keys. *)
geo_key(id, value) ==
    CASE id = 1024 -> [key |-> "GTModelTypeGeoKey", args |-> <<value>>]
      [] id = 1025 -> [key |-> "GTRasterTypeGeoKey", args |-> <<value>>]
      [] id = 2048 -> [key |-> "GeographicTypeGeoKey", args |-> <<value>>]
      [] id = 2050 -> [key |-> "GeogGeodeticDatumGeoKey", args |-> <<value>>]
      [] id = 2051 -> [key |-> "GeogPrimeMeridianGeoKey", args |-> <<value>>]
      [] id = 2052 -> [key |-> "GeogLinearUnitsGeoKey", args |-> <<value>>]
      [] id = 2053 -> [key |-> "GeogLinearUnitSizeGeoKey", args |-> <<value>>]
      [] id = 2054 -> [key |-> "GeogAngularUnitsGeoKey", args |-> <<value>>]
      [] OTHER -> [key |-> "Unknown", args |-> <<id, value>>]

(* skip(4).take(number_of_keys * 4).array_chunks::<4>(): the records the    *)
(* closure is called on.                                                    *)
GeoChunks(g) == IF g.key_count < Len(g.records) THEN g.key_count ELSE Len(g.records)

(* find the entry and read the four header values. *)
GetGeoKeysHeader ==
    /\ pc = "get_geo_keys"
    /\ IF ~gk.present
       THEN /\ pc' = "returned"
            /\ result' = "Err: Image depth not found."
       ELSE IF as_short(gk.kind, 1) = <<>>
            THEN /\ pc' = "returned"
                 /\ result' = "Err: key_directory_version not a short"
            ELSE /\ pc' = "geo_record"
                 /\ UNCHANGED result
    /\ gk_i' = 0
    /\ geo_keys' = <<>>
    /\ UNCHANGED gk
    /\ UNCHANGED <<decodeVars, rasterVars>>

(* One call of the closure on a record. *)
GeoRecord ==
    /\ pc = "geo_record"
    /\ gk_i < GeoChunks(gk)
    /\ LET rec == gk.records[gk_i + 1]
           location == as_unsigned_int(gk.kind, rec.location)
           count == as_unsigned_int(gk.kind, rec.count)
           id == as_short(gk.kind, rec.id)
           value == as_short(gk.kind, rec.value)
       IN IF location = <<>>
          THEN /\ pc' = "returned"
               /\ result' = "Err: Could not parse geo keys properly"
               /\ UNCHANGED <<gk_i, geo_keys>>
          ELSE IF location[1] # 0 /\ count[1] # 1
          THEN /\ pc' = "panicked"
               /\ result' = "Cannot yet handle geotiffs with non-integer valued keys"
               /\ UNCHANGED <<gk_i, geo_keys>>
          ELSE IF id = <<>> \/ value = <<>>
          THEN /\ pc' = "returned"
               /\ result' = "Err: Could not parse geo keys properly"
               /\ UNCHANGED <<gk_i, geo_keys>>
          ELSE /\ geo_keys' = Append(geo_keys, geo_key(id[1], value[1]))
               /\ gk_i' = gk_i + 1
               /\ UNCHANGED <<pc, result>>
    /\ UNCHANGED gk
    /\ UNCHANGED <<decodeVars, rasterVars>>

(* collect: every record gave Some. *)
GeoCollect ==
    /\ pc = "geo_record"
    /\ gk_i = GeoChunks(gk)
    /\ pc' = "returned"
    /\ result' = "Ok(geo_keys)"
    /\ UNCHANGED <<decodeVars, rasterVars, geoVars>>

InitGeoKeys ==
    /\ pc = "get_geo_keys"
    /\ result = "none"
    /\ gk \in GeoInputs
    /\ gk_i = 0
    /\ geo_keys = <<>>
    /\ order = "none"
    /\ header = <<>>
    /\ pos = 0
    /\ ifd_offset = 0
    /\ ifd = [count |-> 0, entries |-> <<>>]
    /\ entry_number = 0
    /\ disk_tags = <<>>
    /\ diag = <<>>
    /\ reads = <<>>
    /\ ras = NoRaster
    /\ img = <<>>
    /\ cur = [x |-> 0, y |-> 0, z |-> 0, nth |-> 0, i |-> 0]
    /\ consumed = <<>>
    /\ lookup = NoLookup

NextGeoKeys ==
    \/ GetGeoKeysHeader
    \/ GeoRecord
    \/ GeoCollect

SpecGeoKeys == InitGeoKeys /\ [][NextGeoKeys]_vars

----------------------------------------------------------------------------
(* Properties of the header gate and of the directory decoder. *)

NothingDecoded ==
    /\ ifd = [count |-> 0, entries |-> <<>>]
    /\ disk_tags = <<>>
    /\ reads = <<>>
    /\ img = <<>>

(* C1: once read_byte_order has run on a file of at least 2 bytes, the      *)
(* little-endian strategy is selected exactly when the first two bytes,     *)
(* read as a little-endian u16, are 0x4949, the big-endian strategy exactly *)
(* when they are 0x4D4D, and for every other value the read ends with the   *)
(* invalid byte order error after those 2 bytes, nothing else decoded.      *)
ByteOrderGate ==
    (pc # "read_byte_order" /\ Len(header) >= 2) =>
        LET v == header[1] + 256 * header[2]
        IN /\ (order = "LittleEndian") <=> (v = 18761)
           /\ (order = "BigEndian") <=> (v = 19789)
           /\ (v \notin {18761, 19789}) =>
                 /\ pc = "returned"
                 /\ result = "Err: Invalid byte order in header."
                 /\ pos = 2
                 /\ ifd_offset = 0
                 /\ NothingDecoded

ByteOrderGateWitness ==
    /\ pc = "read_magic"
    /\ order = "BigEndian"
    /\ header[1] = 77 /\ header[2] = 77

(* C2: once read_magic has run on a file of at least 4 bytes, decoding has  *)
(* gone on exactly when bytes 2-3, read in the chosen order, are 42; for    *)
(* every other value read_tiff has returned the invalid magic error, with   *)
(* no directory and no raster.                                              *)
MagicGate ==
    (order \in Orders /\ pc # "read_magic" /\ Len(header) >= 4) =>
        LET m == IF order = "LittleEndian"
                 THEN header[3] + 256 * header[4]
                 ELSE 256 * header[3] + header[4]
        IN IF m = 42
           THEN result # "Err: Invalid magic number in header"
           ELSE /\ pc = "returned"
                /\ result = "Err: Invalid magic number in header"
                /\ pos = 4
                /\ ifd_offset = 0
                /\ NothingDecoded

(* A big-endian file whose magic bytes are 42 in little-endian order. *)
MagicGateWitness ==
    /\ order = "BigEndian"
    /\ Len(header) >= 4 /\ header[3] = 42 /\ header[4] = 0
    /\ pc = "returned"
    /\ result = "Err: Invalid magic number in header"

(* C3: every decoded entry took its value bytes from its own value field    *)
(* (record start + 8) when count * type_size <= 4, and from the offset held *)
(* in the value field when count * type_size > 4.  count * size <= 4 is     *)
(* written count <= 4 \div size.                                            *)
InlineRule ==
    \A i \in 1..Len(ifd.entries) :
        LET e == ifd.entries[i]
            r == reads[i]
        IN IF e.count <= 4 \div tag_size(e.tpe)
           THEN r.val_at = r.rec_at + 8
           ELSE r.val_at = e.value_offset

(* The rule of C3 on the entries whose product fits 32 bits. *)
InlineRuleWithoutOverflow ==
    \A i \in 1..Len(ifd.entries) :
        LET e == ifd.entries[i]
            r == reads[i]
        IN ~mul_overflows_u32(e.count, tag_size(e.tpe)) =>
             IF e.count <= 4 \div tag_size(e.tpe)
             THEN r.val_at = r.rec_at + 8 /\ r.n = e.count * tag_size(e.tpe)
             ELSE r.val_at = e.value_offset

IsRecognizedTag(t) == t \in RecognizedTags
IsUnrecognizedTag(t) == t \notin RecognizedTags

(* The records read_tag has returned from: all but one that panicked. *)
ProcessedTags ==
    IF pc = "panicked" THEN SubSeq(disk_tags, 1, Len(disk_tags) - 1) ELSE disk_tags

(* C4: the decoded directory holds, in on-disk order, exactly the processed *)
(* entries whose tag id is in the registry; each entry with an id outside   *)
(* it is reported with its index and omitted; such an entry never ends the  *)
(* decoding; and when the loop ends read_IFD returns Ok.                    *)
UnknownTagsOmitted ==
    /\ [i \in 1..Len(ifd.entries) |-> ifd.entries[i].tag]
         = SelectSeq(ProcessedTags, IsRecognizedTag)
    /\ Len(diag) = Len(SelectSeq(ProcessedTags, IsUnrecognizedTag))
    /\ \A k \in 1..Len(diag) : disk_tags[diag[k] + 1] \notin RecognizedTags
    /\ pc = "panicked" => disk_tags[Len(disk_tags)] \in RecognizedTags
    /\ pc = "read_image_data" =>
          /\ result = "Ok(ifd)"
          /\ Len(disk_tags) = ifd.count

UnknownTagsOmittedWitness ==
    /\ pc = "read_image_data"
    /\ Len(disk_tags) = 2
    /\ disk_tags[1] = UnknownTagId
    /\ Len(ifd.entries) = 1
    /\ ifd.entries[1].tag = DiskTags[2]
    /\ diag = <<0>>

(* C5: an entry with a recognized tag and an unrecognized type id never     *)
(* aborts the decoding of the directory.                                    *)
BadTypeDoesNotAbort ==
    ~(pc = "panicked" /\ result = "Invalid tag type")

----------------------------------------------------------------------------
(* Properties of the raster reconstruction. *)

(* The iterations of the actions end in the array the functions compute. *)
StepwiseMatchesFold ==
    pc = "done" =>
        IF ras.layout = "strip" THEN read_strip_image(ras) = [kind |-> "Ok", img |-> img]
        ELSE read_tiled_image(ras) = [kind |-> "Ok", img |-> img]

(* A single-band image of 8-bit samples in one strip of all its bytes. *)
StripRoundTripInput ==
    /\ ras.layout = "strip"
    /\ ras.bits_per_sample = 8
    /\ ras.samples_per_pixel = 1
    /\ Len(ras.offsets) = 1
    /\ ras.byte_counts[1] = ras.image_width * ras.image_length

(* C6: a strip-organized single-band image of width W and length H with    *)
(* 8-bit samples and one strip holding all W*H bytes decodes without a      *)
(* panic, and the pixel at row r and column c holds the input byte at       *)
(* position r*W + c of the strip.                                           *)
StripRoundTrip ==
    StripRoundTripInput =>
        /\ pc # "panicked"
        /\ pc = "done" =>
              \A r \in 0..(ras.image_length - 1) : \A c \in 0..(ras.image_width - 1) :
                  img[r + 1][c + 1] = <<DataByte(ras.offsets[1] + r * ras.image_width + c)>>

StripRoundTripWitness ==
    /\ pc = "done"
    /\ StripRoundTripInput
    /\ ras.image_width = 2
    /\ ras.image_length = 2
    /\ img[2][1] = <<DataByte(DataStart + 2)>>
    /\ img[1][2] = <<DataByte(DataStart + 1)>>

SingleSpan(r) == Len(r.offsets) = 1 /\ Len(r.byte_counts) = 1
FitsImage(r) == SpanSamples(r, 1) <= r.image_width * r.image_length
IsSingleTile(r) ==
    r.layout = "tile" /\ r.tile_width = r.image_width /\ r.tile_length = r.image_length
AsStrip(r) == [r EXCEPT !.layout = "strip", !.tile_width = 0, !.tile_length = 0]
AsSingleTile(r) ==
    [r EXCEPT !.layout = "tile", !.tile_width = r.image_width,
              !.tile_length = r.image_length]

Overhang(r) ==
    r.image_width % r.tile_width # 0 \/ r.image_length % r.tile_length # 0
FullTiles(r) ==
    \A k \in 1..SpanCount(r) :
        SpanSamples(r, k) = r.tile_width * r.tile_length * r.samples_per_pixel
DiscardsOutside ==
    \A k \in 1..Len(consumed) :
        consumed[k].written <=>
            (consumed[k].row < ras.image_length /\ consumed[k].col < ras.image_width)
SizedAs(samples) ==
    /\ Len(img) = ras.image_length
    /\ \A r \in 1..Len(img) :
          /\ Len(img[r]) = ras.image_width
          /\ \A c \in 1..Len(img[r]) : Len(img[r][c]) = samples

(* C8: a tiled reconstruction where image_width or image_length is not a    *)
(* multiple of the tile size ends in an array of image_length rows,         *)
(* image_width columns per row and the declared number of samples per       *)
(* pixel; every sample position outside the image is read and not written,  *)
(* and no write targets an index outside the array.                         *)
TilesOverhang ==
    (ras.layout = "tile" /\ Overhang(ras) /\ FullTiles(ras)) =>
        /\ pc # "panicked"
        /\ DiscardsOutside
        /\ pc = "done" => SizedAs(ras.samples_per_pixel)

(* The same for the images of one sample per pixel. *)
TilesOverhangSingleBand ==
    (ras.layout = "tile" /\ Overhang(ras) /\ FullTiles(ras)
        /\ ras.samples_per_pixel = 1) =>
        /\ pc # "panicked"
        /\ DiscardsOutside
        /\ pc = "done" => SizedAs(1)

(* C9: whenever read_image_data returns success on an image of one sample   *)
(* per pixel, every pixel of the returned array holds its sample: no        *)
(* partial raster is returned.                                              *)
NoPartialRaster ==
    (pc = "done" /\ ras.samples_per_pixel = 1) => SizedAs(1)

----------------------------------------------------------------------------
(* Properties of the GeoKey directory decoder. *)

GeoKeyTable(id) ==
    CASE id = 1024 -> "GTModelTypeGeoKey"
      [] id = 1025 -> "GTRasterTypeGeoKey"
      [] id = 2048 -> "GeographicTypeGeoKey"
      [] id = 2050 -> "GeogGeodeticDatumGeoKey"
      [] id = 2051 -> "GeogPrimeMeridianGeoKey"
      [] id = 2052 -> "GeogLinearUnitsGeoKey"
      [] id = 2053 -> "GeogLinearUnitSizeGeoKey"
      [] id = 2054 -> "GeogAngularUnitsGeoKey"
      [] OTHER -> "Unknown"

DirectValued(g) ==
    /\ g.present
    /\ g.kind = "Short"
    /\ g.key_count <= Len(g.records)
    /\ \A k \in 1..g.key_count :
          g.records[k].location = 0 \/ g.records[k].count = 1

(* C10: on a GeoKey directory of shorts whose header gives key_count and    *)
(* whose records all have location = 0 or count = 1, get_geo_keys returns   *)
(* exactly key_count GeoKeys in record order, each with the key of the      *)
(* fixed table for the record's id (Unknown(id, value) for any other id)    *)
(* and the record's 4th field as value.                                     *)
GeoKeysMapped ==
    DirectValued(gk) =>
        /\ pc # "panicked"
        /\ pc = "returned" =>
              /\ result = "Ok(geo_keys)"
              /\ Len(geo_keys) = gk.key_count
              /\ \A k \in 1..Len(geo_keys) :
                    LET rec == gk.records[k]
                    IN /\ geo_keys[k].key = GeoKeyTable(rec.id)
                       /\ geo_keys[k].args =
                             IF rec.id \in TableKeyIds THEN <<rec.value>>
                             ELSE <<rec.id, rec.value>>

GeoKeysMappedWitness ==
    /\ pc = "returned"
    /\ gk.present
    /\ gk.kind = "Short"
    /\ gk.key_count = 2
    /\ gk.records = <<[id |-> 1024, location |-> 0, count |-> 1, value |-> 2],
                      [id |-> 2048, location |-> 0, count |-> 1, value |-> 4326]>>
    /\ geo_keys = <<[key |-> "GTModelTypeGeoKey", args |-> <<2>>],
                    [key |-> "GeographicTypeGeoKey", args |-> <<4326>>]>>

(* A directory of shorts with a record for every key the header counts. *)
WholeDirectory(g) == g.present /\ g.kind = "Short" /\ g.key_count <= Len(g.records)

IsDirect(rec) == rec.location = 0 \/ rec.count = 1

(* C11: a GeoKey record with location # 0 and count # 1 is skipped: the     *)
(* call does not abort, and it returns the GeoKeys of all other records,    *)
(* in order.                                                                *)
IndirectRecordsSkipped ==
    WholeDirectory(gk) =>
        /\ pc # "panicked"
        /\ pc = "returned" =>
              LET kept == SelectSeq(SubSeq(gk.records, 1, gk.key_count), IsDirect)
              IN /\ result = "Ok(geo_keys)"
                 /\ geo_keys = [k \in 1..Len(kept) |-> geo_key(kept[k].id, kept[k].value)]

----------------------------------------------------------------------------
(* Properties of the pixel accessor. *)

(* A single-band strip image was loaded, with a sample in every pixel. *)
LoadedStripImage ==
    /\ ras.layout = "strip"
    /\ ras.samples_per_pixel = 1
    /\ pc \in {"looked_up", "lookup_panicked"}
    /\ SizedAs(1)

(* C12: after a successful load, get_value_at(column, row) with             *)
(* column < image_width and row < image_length returns the first sample of  *)
(* the pixel at that row and that column of the raster.                     *)
ValueAtColumnRow ==
    (LoadedStripImage
        /\ lookup.lon < ras.image_width /\ lookup.lat < ras.image_length) =>
        /\ pc = "looked_up"
        /\ lookup.value = <<img[lookup.lat + 1][lookup.lon + 1][1]>>

(* The same for the square images, and for the accessor read as (row, column). *)
ValueAtRowColumn ==
    (LoadedStripImage
        /\ lookup.lon < ras.image_length /\ lookup.lat < ras.image_width) =>
        /\ pc = "looked_up"
        /\ lookup.value = <<img[lookup.lon + 1][lookup.lat + 1][1]>>

----------------------------------------------------------------------------
(* Properties of the decoded entries. *)

(* The variant that carries a type: its own, and bytes for Undefined. *)
VariantOf(t) ==
    CASE t = "ASCII" -> "Ascii"
      [] t = "Undefined" -> "Byte"
      [] OTHER -> t

FitsU32(e) == ~mul_overflows_u32(e.count, tag_size(e.tpe))

(* C13: every entry of a decoded directory has as many elements in its      *)
(* decoded value as its count field says, in the variant of its type        *)
(* field, for every recognized type and every count (whose byte size fits   *)
(* 32 bits).                                                                *)
ValueMatchesCountAndType ==
    \A i \in 1..Len(ifd.entries) :
        LET e == ifd.entries[i]
        IN FitsU32(e) =>
              /\ Len(e.value.elems) = e.count
              /\ e.value.kind = VariantOf(e.tpe)

(* The numbers of bytes from which bytes_to_tag_value makes one element. *)
ElementWidths(t) ==
    {n \in 1..8 :
        Len(bytes_to_tag_value("LittleEndian", [k \in 1..n |-> 0], t).elems) = 1}

element_width(t) == CHOOSE n \in ElementWidths(t) : \A m \in ElementWidths(t) : n <= m

StatedWidth(t) ==
    CASE t \in {"Byte", "ASCII", "SignedByte", "Undefined"} -> 1
      [] t \in {"Short", "SignedShort"} -> 2
      [] t \in {"Long", "SignedLong", "Float"} -> 4
      [] t \in {"Rational", "SignedRational", "Double"} -> 8

(* C14: the byte size per value that read_tag multiplies the count with is  *)
(* the width of the chunks the value decoder cuts the bytes into: 1, 2, 4   *)
(* or 8 by type, for the type of every decoded entry.                       *)
SizeIsElementWidth ==
    \A i \in 1..Len(ifd.entries) :
        LET t == ifd.entries[i].tpe
        IN /\ tag_size(t) = StatedWidth(t)
           /\ ElementWidths(t) # {} => tag_size(t) = element_width(t)

(* C18: every entry is read at directory_start + 2 + 12 * i, and its value  *)
(* at the entry's own value field or at its value offset, wherever the      *)
(* reads before it left the cursor.                                         *)
AbsoluteSeeks ==
    \A i \in 1..Len(reads) :
        /\ reads[i].rec_at = ifd_offset + 2 + 12 * reads[i].entry_number
        /\ reads[i].val_at \in {reads[i].rec_at + 8, ifd.entries[i].value_offset}

AbsoluteSeeksWitness ==
    /\ Len(reads) = 2
    /\ reads[1].n = 5
    /\ reads[1].val_at = ifd.entries[1].value_offset
    /\ reads[1].val_at + reads[1].n # reads[2].rec_at
    /\ reads[2].entry_number = 1
    /\ reads[2].rec_at = ifd_offset + 14
    /\ reads[2].val_at = reads[2].rec_at + 8

(* Every sample of a strip or tile is read at the offset of its span plus   *)
(* the bytes of the samples before it.                                      *)
SpanReadsAtOffsets ==
    pc \in {"strip_sample", "tile_sample"} =>
        pos = ras.offsets[cur.nth + 1] + cur.i * image_depth(ras)

(* C19: no entry whose count * type size exceeds 32 bits is added to the    *)
(* directory: its value is never read as an inline value of the wrapped     *)
(* size.                                                                    *)
NoWrappedInline ==
    \A i \in 1..Len(ifd.entries) : FitsU32(ifd.entries[i])

----------------------------------------------------------------------------
(* Properties of the placement of samples. *)

RECURSIVE SamplesUpTo(_, _)
SamplesUpTo(r, k) == IF k = 0 THEN 0 ELSE SamplesUpTo(r, k - 1) + SpanSamples(r, k)

(* The strips hold the samples of every pixel, no more and no less. *)
WholeStrips(r) ==
    /\ r.layout = "strip"
    /\ SamplesUpTo(r, SpanCount(r)) = r.image_width * r.image_length * r.samples_per_pixel

(* C16: in strip reconstruction of an image with S samples per pixel the    *)
(* k-th sample consumed is stored at row k div (W*S) and column             *)
(* (k div S) mod W, and the result has exactly S samples in every pixel.    *)
StripSamplePlacement ==
    WholeStrips(ras) =>
        /\ pc # "panicked"
        /\ \A k \in 1..Len(consumed) :
              /\ consumed[k].row = (k - 1) \div (ras.image_width * ras.samples_per_pixel)
              /\ consumed[k].col = ((k - 1) \div ras.samples_per_pixel) % ras.image_width
        /\ pc = "done" => SizedAs(ras.samples_per_pixel)

(* The same for the images of one sample per pixel. *)
StripSamplePlacementSingleBand ==
    (WholeStrips(ras) /\ ras.samples_per_pixel = 1) =>
        /\ pc # "panicked"
        /\ \A k \in 1..Len(consumed) :
              /\ consumed[k].row = (k - 1) \div ras.image_width
              /\ consumed[k].col = (k - 1) % ras.image_width
        /\ pc = "done" => SizedAs(1)

(* C17: in tiled reconstruction the samples of the n-th tile are placed in  *)
(* the columns [tile_col * tile_width, (tile_col + 1) * tile_width) and in  *)
(* rows from start_row = tiles_down * tile_length - (tile_row + 1) *        *)
(* tile_length on, the first sample of the tile at start_row and the first  *)
(* column, with tile_col = n mod tiles_across, tile_row = n div             *)
(* tiles_across, tiles_across = ceil(image_width / tile_width) and          *)
(* tiles_down = ceil(image_length / tile_length).                           *)
TilePlacement ==
    ras.layout = "tile" =>
        \A k \in 1..Len(consumed) :
            LET n == consumed[k].span
                across == CeilDiv(ras.image_width, ras.tile_width)
                down == CeilDiv(ras.image_length, ras.tile_length)
                col0 == (n % across) * ras.tile_width
                start_row == down * ras.tile_length - ((n \div across) + 1) * ras.tile_length
            IN /\ consumed[k].col >= col0
               /\ consumed[k].col < col0 + ras.tile_width
               /\ consumed[k].row >= start_row
               /\ (k = 1 \/ consumed[k - 1].span # n) =>
                     consumed[k].row = start_row /\ consumed[k].col = col0

(* The first tile in storage order has landed at the bottom of the image. *)
TilePlacementWitness ==
    /\ pc = "done"
    /\ ras.layout = "tile"
    /\ ras.image_length = 3
    /\ ras.tile_length = 2
    /\ ras.image_width = 2
    /\ ras.tile_width = 2
    /\ ras.samples_per_pixel = 1
    /\ consumed[1] = [span |-> 0, row |-> 2, col |-> 0, written |-> TRUE]
    /\ consumed[5] = [span |-> 1, row |-> 0, col |-> 0, written |-> TRUE]
    /\ img[3][1] = <<DataByte(ras.offsets[1])>>

----------------------------------------------------------------------------
(* Layout selection (reader.rs: get_image_size_data, and the geometry       *)
(* lookups that open read_strip_image and read_tiled_image).                *)

StripTags == {"StripOffsetsTag", "StripByteCountsTag"}
TileTags == {"TileWidthTag", "TileHeightTag", "TileOffsetsTag", "TileByteCountTag"}
GeometryTags == {"ImageLengthTag", "ImageWidthTag", "BitsPerSampleTag"}

(* The directories read_image_data may be given: any of the layout and      *)
(* geometry entries present or absent, their values shorts or longs.        *)
LayoutInputs ==
    {[kind |-> k, present |-> p] :
        k \in {"Short", "Long"}, p \in SUBSET (StripTags \cup TileTags \cup GeometryTags)}

(* IFD::get(tag) followed by as_unsigned_ints: Some for an entry that is    *)
(* there and holds unsigned integers.                                       *)
as_unsigned_ints(kind) == kind \in {"Short", "Long"}
get_unsigned_ints(d, tag) == tag \in d.present /\ as_unsigned_ints(d.kind)

(* Mutant: one strip entry is enough for the strip path. *)
get_image_size_data_either(d) ==
    IF get_unsigned_ints(d, "StripOffsetsTag") \/ get_unsigned_ints(d, "StripByteCountsTag")
    THEN "Image"
    ELSE IF /\ get_unsigned_ints(d, "TileWidthTag")
            /\ get_unsigned_ints(d, "TileHeightTag")
            /\ "TileOffsetsTag" \in d.present
            /\ "TileByteCountTag" \in d.present
         THEN "Tiles"
         ELSE "panic"

(* get_image_size_data: strip_offsets.zip(strip_row_byte_counts) is Some,   *)
(* or else the four expects of the tile branch.                             *)
get_image_size_data(d) ==
    IF get_unsigned_ints(d, "StripOffsetsTag") /\ get_unsigned_ints(d, "StripByteCountsTag")
    THEN "Image"
    ELSE IF /\ get_unsigned_ints(d, "TileWidthTag")
            /\ get_unsigned_ints(d, "TileHeightTag")
            /\ "TileOffsetsTag" \in d.present
            /\ "TileByteCountTag" \in d.present
         THEN "Tiles"
         ELSE "panic"

(* read_image_data: the match on get_image_size_data. *)
SelectLayout ==
    /\ pc = "get_image_size_data"
    /\ LET data == get_image_size_data(ras)
       IN CASE data = "Image" -> pc' = "read_strip_image" /\ UNCHANGED result
            [] data = "Tiles" -> pc' = "read_tiled_image" /\ UNCHANGED result
            [] data = "panic" ->
                 /\ pc' = "panicked"
                 /\ result' = "Not enough tile or strip tags found"
    /\ UNCHANGED <<decodeVars, rasterVars, geoVars>>

(* get_image_length()?, get_image_width()?, get_bytes_per_sample()?, and in *)
(* the tile path the two as_unsigned_ints().ok_or(..)?, before the loops.   *)
ReadGeometry ==
    /\ pc \in {"read_strip_image", "read_tiled_image"}
    /\ IF "ImageLengthTag" \notin ras.present
       THEN pc' = "returned" /\ result' = "Err: Image length not found."
       ELSE IF "ImageWidthTag" \notin ras.present
       THEN pc' = "returned" /\ result' = "Err: Image width not found."
       ELSE IF "BitsPerSampleTag" \notin ras.present
       THEN pc' = "returned" /\ result' = "Err: Image depth not found."
       ELSE IF pc = "read_tiled_image" /\ ~as_unsigned_ints(ras.kind)
       THEN pc' = "returned" /\ result' = "Err: Couldn't read offsets"
       ELSE /\ pc' = IF pc = "read_strip_image" THEN "strip_loop" ELSE "tile_loop"
            /\ UNCHANGED result
    /\ UNCHANGED <<decodeVars, rasterVars, geoVars>>

InitLayout ==
    /\ pc = "get_image_size_data"
    /\ result = "none"
    /\ ras \in LayoutInputs
    /\ order = "none"
    /\ header = <<>>
    /\ pos = 0
    /\ ifd_offset = 0
    /\ ifd = [count |-> 0, entries |-> <<>>]
    /\ entry_number = 0
    /\ disk_tags = <<>>
    /\ diag = <<>>
    /\ reads = <<>>
    /\ img = <<>>
    /\ cur = [x |-> 0, y |-> 0, z |-> 0, nth |-> 0, i |-> 0]
    /\ consumed = <<>>
    /\ lookup = NoLookup
    /\ gk = NoGeo
    /\ gk_i = 0
    /\ geo_keys = <<>>

NextLayout ==
    \/ SelectLayout
    \/ ReadGeometry

SpecLayout == InitLayout /\ [][NextLayout]_vars

====
